---- MODULE Spec2Model ----
(***************************************************************************)
(* Model of .circleci/run_config_yml_on_circle_ci.py: the regular          *)
(* expressions of parse_url_to_remote_info and main(), and main() as a     *)
(* sequence of steps against an environment (git, the circleci CLI, two    *)
(* files, the HTTP endpoint) whose answers are chosen nondeterministically.*)
(* Python str values are TLA+ strings; a character is a string of length 1.*)
(***************************************************************************)
EXTENDS Integers, Sequences, FiniteSets, TLC

VARIABLES
    pc,                      \* the statement of main() to run next, or "exited"
    succeeded,               \* the steps of main() that returned normally
    validate_rc,             \* exit status of `circleci config validate` (-1 before it ran)
    validator_output,        \* the lines `circleci config validate` wrote to its standard output
    remote_tracking_branch,  \* main: remote_tracking_branch
    remote_name,             \* main: match.group('remote_name')
    remote_branch_name,      \* main: remote_branch_name
    remote_url,              \* main: remote_url / the argument url of parse_url_to_remote_info
    remote_info,             \* main: remote_info / the value of parse_url_to_remote_info
    http_requests,           \* the HTTP requests sent so far, in order
    response,                \* main: response
    response_data,           \* main: response_data
    stdout,                  \* the lines on the standard output of the process
    error,                   \* the exception that ended the run ("" if none)
    exit_code                \* the exit status of the process (-1 while it runs)

vars == <<pc, succeeded, validate_rc, validator_output, remote_tracking_branch, remote_name,
          remote_branch_name, remote_url, remote_info, http_requests, response,
          response_data, stdout, error, exit_code>>

----------------------------------------------------------------------------
(* Bounds of the explored inputs *)

MaxOrgLen == 1
MaxRepoLen == 2
MaxBranchLen == 3
MaxRedirects == 1

----------------------------------------------------------------------------
(* Strings *)

Char(s, i) == IF i >= 1 /\ i <= Len(s) THEN SubSeq(s, i, i) ELSE ""

\* the least index >= i at which s holds character c, 0 if there is none
RECURSIVE Find(_, _, _)
Find(s, c, i) ==
    IF i > Len(s) THEN 0
    ELSE IF Char(s, i) = c THEN i
    ELSE Find(s, c, i + 1)

\* the strings over alphabet of length at most n
RECURSIVE Strs(_, _)
Strs(alphabet, n) ==
    IF n = 0 THEN {""}
    ELSE LET shorter == Strs(alphabet, n - 1)
         IN  shorter \cup {s \o c : s \in shorter, c \in alphabet}

----------------------------------------------------------------------------
(* The regular expression of parse_url_to_remote_info, as re.match runs it:
     ^((?P<user>[^@]+)@)?(?P<hostname>[^:]+):(?P<organization>[^/]+)/(?P<repo_name>.+).git?$
   Every group but repo_name is a negated class followed by the one character
   the class excludes, so it has a single candidate: the text up to the first
   such character. *)

\* `.` without re.DOTALL: any character but a line feed
Dot(c) == Len(c) = 1 /\ c # "\n"

\* `$` without re.MULTILINE at index j: the end of the string, or just before
\* a line feed that ends the string
AtEnd(s, j) == j = Len(s) + 1 \/ (j = Len(s) /\ Char(s, j) = "\n")

SuffixNoDot(s, k) ==
    /\ Char(s, k) = "g"
    /\ Char(s, k + 1) = "i"
    /\ Char(s, k + 2) = "t"
    /\ AtEnd(s, k + 3)

\* `.git?$` matched from index k: any character, "g", "i", an optional "t"
SuffixAt(s, k) ==
    /\ Dot(Char(s, k))
    /\ Char(s, k + 1) = "g"
    /\ Char(s, k + 2) = "i"
    /\ \/ AtEnd(s, k + 3)
       \/ (Char(s, k + 3) = "t" /\ AtEnd(s, k + 4))

\* the indices e at which (?P<repo_name>.+), started at r, may end
RepoEnds(s, r) ==
    {e \in r..Len(s) : (\A i \in r..e : Dot(Char(s, i))) /\ SuffixAt(s, e + 1)}

Max(S) == CHOOSE x \in S : \A y \in S : y <= x

NoMatch == [matched |-> FALSE, hostname |-> "", organization |-> "", repo_name |-> ""]

\* (?P<hostname>[^:]+):(?P<organization>[^/]+)/(?P<repo_name>.+).git?$ from index h
MatchFromHost(s, h) ==
    LET colon == Find(s, ":", h)
        slash == IF colon = 0 THEN 0 ELSE Find(s, "/", colon + 1)
        ends  == IF slash = 0 THEN {} ELSE RepoEnds(s, slash + 1)
    IN  IF colon > h /\ slash > colon + 1 /\ ends # {}
        THEN [matched      |-> TRUE,
              hostname     |-> SubSeq(s, h, colon - 1),
              organization |-> SubSeq(s, colon + 1, slash - 1),
              \* .+ is greedy: the longest repo_name the suffix allows
              repo_name    |-> SubSeq(s, slash + 1, Max(ends))]
        ELSE NoMatch

\* re.match(pattern, url): the optional group ((?P<user>[^@]+)@)? is tried
\* first, and skipped only if the rest cannot match after it
UrlMatch(url) ==
    LET at       == Find(url, "@", 1)
        withUser == IF at > 1 THEN MatchFromHost(url, at + 1) ELSE NoMatch
    IN  IF withUser.matched THEN withUser ELSE MatchFromHost(url, 1)

NoInfo == [service |-> "", organization |-> "", repo_name |-> ""]

RemoteInfo(service, organization, repo_name) ==
    [service |-> service, organization |-> organization, repo_name |-> repo_name]

ParseUrlAnyHost(url) ==
    LET match == UrlMatch(url)
    IN  IF ~match.matched
        THEN [raised |-> TRUE, value |-> NoInfo]
        ELSE [raised |-> FALSE,
              value  |-> RemoteInfo("github", match.organization, match.repo_name)]

\* parse_url_to_remote_info(url): the exception, or the RemoteInfo returned
parse_url_to_remote_info(url) ==
    LET match == UrlMatch(url)
    IN  IF ~match.matched \/ match.hostname # "github.com"
        THEN [raised |-> TRUE, value |-> NoInfo]
        ELSE [raised |-> FALSE,
              value  |-> RemoteInfo("github", match.organization, match.repo_name)]

----------------------------------------------------------------------------
(* The regular expression of main():
     ^(?P<remote_name>[^/]+)/(?P<remote_branch_name>[^/]+)$                 *)

\* the indices at which (?P<remote_branch_name>[^/]+)$, started at b, may end
BranchEndsAnyChar(s, b) == {e \in b..Len(s) : AtEnd(s, e + 1)}

BranchEnds(s, b) ==
    {e \in b..Len(s) : (\A i \in b..e : Char(s, i) # "/") /\ AtEnd(s, e + 1)}

NoBranchMatch == [matched |-> FALSE, remote_name |-> "", remote_branch_name |-> ""]

BranchMatch(s) ==
    LET slash == Find(s, "/", 1)
        ends  == IF slash = 0 THEN {} ELSE BranchEnds(s, slash + 1)
    IN  IF slash > 1 /\ ends # {}
        THEN [matched            |-> TRUE,
              remote_name        |-> SubSeq(s, 1, slash - 1),
              remote_branch_name |-> SubSeq(s, slash + 1, Max(ends))]
        ELSE NoBranchMatch

----------------------------------------------------------------------------
(* The environment of a run *)

\* what `git rev-parse --abbrev-ref --symbolic-full-name @{upstream}` may print,
\* stripped by execute()
TrackingBranches ==
    {"origin/feature-x", "origin/master", "fork/feature/x", "master"}
        \cup Strs({"o", "/", "x"}, MaxBranchLen)

\* what `git remote get-url --push <remote>` may print, stripped by execute()
PushUrls ==
    {"git@github.com:acme/widgets.git", "git@github.com:acme/widgets",
     "github.com:org/repo.git", "git@gitlab.com:acme/widgets.git",
     "https://github.com/acme/widgets.git", "git@github.com:a/b.c.git"}

\* what `circleci config validate` may write to its standard output
ValidatorOutputs ==
    {<<>>, <<"Config file at .circleci/config.yml is valid.">>, <<"Error: config invalid">>}

Revision == "0123abc"
AuthToken == "s3cr3t"
ConfigYml == "version: 2"

BuildUrls == {"https://circleci.com/gh/org/repo/123", "https://circleci.com/gh/acme/widgets/7"}

\* the body of the response: not JSON, a JSON object without build_url, or a
\* JSON object with build_url
Bodies ==
    {[json |-> FALSE, has_build_url |-> FALSE, build_url |-> ""],
     [json |-> TRUE, has_build_url |-> FALSE, build_url |-> ""]}
        \cup {[json |-> TRUE, has_build_url |-> TRUE, build_url |-> u] : u \in BuildUrls}

\* 300 is a status requests hands back as it is (no Location to follow)
StatusCodes == {200, 201, 300, 401, 404, 500}

NoResponse == [status_code |-> 0, body |-> [json |-> FALSE, has_build_url |-> FALSE, build_url |-> ""]]
NoData == [has_build_url |-> FALSE, build_url |-> ""]

----------------------------------------------------------------------------
(* main(), one action per statement *)

\* an exception nobody catches: the interpreter ends the process with status 1
Raise(exception) ==
    /\ pc' = "exited"
    /\ error' = exception
    /\ exit_code' = 1

\* the statement returned normally
Continue(step, next) ==
    /\ pc' = next
    /\ succeeded' = succeeded \cup {step}
    /\ UNCHANGED <<error, exit_code>>

\* top_dir = execute('git', 'rev-parse', '--show-toplevel')
GetTopDir ==
    /\ pc = "top_dir"
    /\ \E returncode \in {0, 128} :
          IF returncode # 0
          THEN Raise("CalledProcessError") /\ UNCHANGED succeeded
          ELSE Continue("top_dir", "validate")
    /\ UNCHANGED <<validate_rc, validator_output, remote_tracking_branch, remote_name, remote_branch_name,
                   remote_url, remote_info, http_requests, response, response_data, stdout>>

ValidateUnchecked ==
    /\ pc = "validate"
    /\ \E returncode \in {0, 1}, out \in ValidatorOutputs :
          /\ validate_rc' = returncode
          /\ validator_output' = out
          /\ stdout' = stdout \o out
          /\ Continue("validate", "config_yml")
    /\ UNCHANGED <<remote_tracking_branch, remote_name, remote_branch_name,
                   remote_url, remote_info, http_requests, response, response_data>>

\* subprocess.run(('circleci', 'config', 'validate'), cwd=top_dir, check=True):
\* no stdout= is passed, so what the validator writes goes to the standard
\* output of the process, whatever its exit status
Validate ==
    /\ pc = "validate"
    /\ \E returncode \in {0, 1}, out \in ValidatorOutputs :
          /\ validate_rc' = returncode
          /\ validator_output' = out
          /\ stdout' = stdout \o out
          /\ IF returncode # 0
             THEN Raise("CalledProcessError") /\ UNCHANGED succeeded
             ELSE Continue("validate", "config_yml")
    /\ UNCHANGED <<remote_tracking_branch, remote_name, remote_branch_name,
                   remote_url, remote_info, http_requests, response, response_data>>

\* config_yml_string = get_config_yml(top_dir)
GetConfigYml ==
    /\ pc = "config_yml"
    /\ \E readable \in BOOLEAN :
          IF ~readable
          THEN Raise("OSError") /\ UNCHANGED succeeded
          ELSE Continue("config_yml", "tracking_branch")
    /\ UNCHANGED <<validate_rc, validator_output, remote_tracking_branch, remote_name, remote_branch_name,
                   remote_url, remote_info, http_requests, response, response_data, stdout>>

\* remote_tracking_branch = get_remote_tracking_branch()
GetRemoteTrackingBranch ==
    /\ pc = "tracking_branch"
    /\ \/ /\ Raise("CalledProcessError")
          /\ UNCHANGED <<succeeded, remote_tracking_branch>>
       \/ \E out \in TrackingBranches :
             /\ remote_tracking_branch' = out
             /\ Continue("tracking_branch", "match_branch")
    /\ UNCHANGED <<validate_rc, validator_output, remote_name, remote_branch_name,
                   remote_url, remote_info, http_requests, response, response_data, stdout>>

\* match = re.match(...); if not match: raise Exception(...);
\* remote_branch_name = match.group('remote_branch_name')
MatchBranch ==
    /\ pc = "match_branch"
    /\ LET match == BranchMatch(remote_tracking_branch)
       IN  IF ~match.matched
           THEN /\ Raise("Exception")
                /\ UNCHANGED <<succeeded, remote_name, remote_branch_name>>
           ELSE /\ remote_name' = match.remote_name
                /\ remote_branch_name' = match.remote_branch_name
                /\ Continue("match_branch", "remote_url")
    /\ UNCHANGED <<validate_rc, validator_output, remote_tracking_branch,
                   remote_url, remote_info, http_requests, response, response_data, stdout>>

\* remote_url = get_url_for_remote(match.group('remote_name'))
GetUrlForRemote ==
    /\ pc = "remote_url"
    /\ \/ /\ Raise("CalledProcessError")
          /\ UNCHANGED <<succeeded, remote_url>>
       \/ \E out \in PushUrls :
             /\ remote_url' = out
             /\ Continue("remote_url", "remote_info")
    /\ UNCHANGED <<validate_rc, validator_output, remote_tracking_branch, remote_name, remote_branch_name,
                   remote_info, http_requests, response, response_data, stdout>>

\* remote_info = parse_url_to_remote_info(remote_url)
ParseRemoteUrl ==
    /\ pc = "remote_info"
    /\ LET result == parse_url_to_remote_info(remote_url)
       IN  IF result.raised
           THEN Raise("Exception") /\ UNCHANGED <<succeeded, remote_info>>
           ELSE /\ remote_info' = result.value
                /\ Continue("remote_info", "revision")
    /\ UNCHANGED <<validate_rc, validator_output, remote_tracking_branch, remote_name, remote_branch_name,
                   remote_url, http_requests, response, response_data, stdout>>

\* revision = get_current_commit()
GetCurrentCommit ==
    /\ pc = "revision"
    /\ \E returncode \in {0, 128} :
          IF returncode # 0
          THEN Raise("CalledProcessError") /\ UNCHANGED succeeded
          ELSE Continue("revision", "auth_token")
    /\ UNCHANGED <<validate_rc, validator_output, remote_tracking_branch, remote_name, remote_branch_name,
                   remote_url, remote_info, http_requests, response, response_data, stdout>>

\* auth_token = get_auth_token(): the file may be missing (OSError), may not be
\* YAML (YAMLError), may hold a mapping without the key 'token' (KeyError) or
\* no mapping at all (TypeError); yaml.load(config) is called without a Loader,
\* which PyYAML 6 refuses with TypeError whatever the file holds
GetAuthToken ==
    /\ pc = "auth_token"
    /\ \E outcome \in {"token", "OSError", "YAMLError", "KeyError", "TypeError"} :
          IF outcome # "token"
          THEN Raise(outcome) /\ UNCHANGED succeeded
          ELSE Continue("auth_token", "post")
    /\ UNCHANGED <<validate_rc, validator_output, remote_tracking_branch, remote_name, remote_branch_name,
                   remote_url, remote_info, http_requests, response, response_data, stdout>>

FormatUrlWithRemote(service, organization, repo_name, branch_name) ==
    "https://circleci.com/api/v1.1/project/" \o service \o "/" \o organization
        \o "/" \o repo_name \o "/tree/" \o remote_name \o "/" \o branch_name

\* 'https://circleci.com/api/v1.1/project/{service}/{organization}/{repo_name}/tree/{branch_name}'.format(...)
FormatUrl(service, organization, repo_name, branch_name) ==
    "https://circleci.com/api/v1.1/project/" \o service \o "/" \o organization
        \o "/" \o repo_name \o "/tree/" \o branch_name

\* requests.post keeps allow_redirects=True: an answer 301, 302, 303, 307 or
\* 308 that names a Location is not returned, the request is sent again there
RedirectCodes == {301, 302, 303, 307, 308}
Location == "https://circleci.com/final"
NoFormData == [revision |-> "", notify |-> "", config |-> ""]

\* the method of the request that follows a redirect: 307 and 308 keep it,
\* the others turn a POST into a GET
RedirectMethod(method, status_code) ==
    IF status_code \in {307, 308} THEN method ELSE "GET"

\* the requests sent after `previous` was answered by the redirects of chain,
\* in order; the Location is on the same host, so the credentials are kept
RECURSIVE Follow(_, _)
Follow(previous, chain) ==
    IF chain = <<>> THEN <<>>
    ELSE LET following ==
                 [method     |-> RedirectMethod(previous.method, Head(chain)),
                  url        |-> Location,
                  auth       |-> previous.auth,
                  data       |-> IF Head(chain) \in {307, 308} THEN previous.data
                                 ELSE NoFormData,
                  redirected |-> TRUE]
         IN  <<following>> \o Follow(following, Tail(chain))

\* the redirects one call may meet before an answer that is returned
RedirectChains == UNION {[1..n -> RedirectCodes] : n \in 0..MaxRedirects}

\* response = requests.post(url, auth=(auth_token, ''), data={...}): the call
\* is made once; it sends the POST and the requests that follow the redirects
\* it is answered with, then returns a response or raises for want of one
Post ==
    /\ pc = "post"
    /\ LET url == FormatUrl(remote_info.service, remote_info.organization,
                            remote_info.repo_name, remote_branch_name)
           request == [method |-> "POST", url |-> url, auth |-> <<AuthToken, "">>,
                       data |-> [revision |-> Revision, notify |-> "false",
                                 config |-> ConfigYml],
                       redirected |-> FALSE]
       IN  \E chain \in RedirectChains :
               http_requests' = http_requests \o <<request>> \o Follow(request, chain)
    /\ \/ /\ Raise("ConnectionError")
          /\ UNCHANGED <<succeeded, response>>
       \/ \E status_code \in StatusCodes, body \in Bodies :
             /\ response' = [status_code |-> status_code, body |-> body]
             /\ Continue("post", "json")
    /\ UNCHANGED <<validate_rc, validator_output, remote_tracking_branch, remote_name, remote_branch_name,
                   remote_url, remote_info, response_data, stdout>>

\* response_data = response.json(): raises if the body is not JSON
ResponseJson ==
    /\ pc = "json"
    /\ IF ~response.body.json
       THEN Raise("JSONDecodeError") /\ UNCHANGED <<succeeded, response_data>>
       ELSE /\ response_data' = [has_build_url |-> response.body.has_build_url,
                                 build_url     |-> response.body.build_url]
            /\ Continue("json", "raise_for_status")
    /\ UNCHANGED <<validate_rc, validator_output, remote_tracking_branch, remote_name, remote_branch_name,
                   remote_url, remote_info, http_requests, response, stdout>>

RaiseForStatusRetry ==
    /\ pc = "raise_for_status"
    /\ IF response.status_code >= 400 /\ response.status_code < 600
       THEN pc' = "post" /\ UNCHANGED <<succeeded, error, exit_code>>
       ELSE Continue("raise_for_status", "print")
    /\ UNCHANGED <<validate_rc, validator_output, remote_tracking_branch, remote_name, remote_branch_name,
                   remote_url, remote_info, http_requests, response, response_data, stdout>>

\* response.raise_for_status(): requests raises HTTPError for the client
\* errors (4xx) and the server errors (5xx), and for no other status
RaiseForStatus ==
    /\ pc = "raise_for_status"
    /\ IF response.status_code >= 400 /\ response.status_code < 600
       THEN Raise("HTTPError") /\ UNCHANGED succeeded
       ELSE Continue("raise_for_status", "print")
    /\ UNCHANGED <<validate_rc, validator_output, remote_tracking_branch, remote_name, remote_branch_name,
                   remote_url, remote_info, http_requests, response, response_data, stdout>>

\* print(a, b) writes str(a), a space, str(b) and the line end
PrintLine(a, b) == a \o " " \o b

PrintBuildTwice ==
    /\ pc = "print"
    /\ IF ~response_data.has_build_url
       THEN Raise("KeyError") /\ UNCHANGED <<succeeded, stdout>>
       ELSE /\ stdout' = stdout \o <<PrintLine("Build triggered as", response_data.build_url),
                                     response_data.build_url>>
            /\ Continue("print", "exit")
    /\ UNCHANGED <<validate_rc, validator_output, remote_tracking_branch, remote_name, remote_branch_name,
                   remote_url, remote_info, http_requests, response, response_data>>

\* print('Build triggered as', response_data['build_url'])
PrintBuild ==
    /\ pc = "print"
    /\ IF ~response_data.has_build_url
       THEN Raise("KeyError") /\ UNCHANGED <<succeeded, stdout>>
       ELSE /\ stdout' = Append(stdout, PrintLine("Build triggered as", response_data.build_url))
            /\ Continue("print", "exit")
    /\ UNCHANGED <<validate_rc, validator_output, remote_tracking_branch, remote_name, remote_branch_name,
                   remote_url, remote_info, http_requests, response, response_data>>

\* exit(main()): main() returned None, the exit status is 0
Exit ==
    /\ pc = "exit"
    /\ pc' = "exited"
    /\ exit_code' = 0
    /\ UNCHANGED <<succeeded, validate_rc, validator_output, remote_tracking_branch, remote_name,
                   remote_branch_name, remote_url, remote_info, http_requests, response,
                   response_data, stdout, error>>

----------------------------------------------------------------------------
(* A run of the script *)

Init ==
    /\ pc = "top_dir"
    /\ succeeded = {}
    /\ validate_rc = -1
    /\ validator_output = <<>>
    /\ remote_tracking_branch = ""
    /\ remote_name = ""
    /\ remote_branch_name = ""
    /\ remote_url = ""
    /\ remote_info = NoInfo
    /\ http_requests = <<>>
    /\ response = NoResponse
    /\ response_data = NoData
    /\ stdout = <<>>
    /\ error = ""
    /\ exit_code = -1

Next ==
    \/ GetTopDir
    \/ Validate
    \/ GetConfigYml
    \/ GetRemoteTrackingBranch
    \/ MatchBranch
    \/ GetUrlForRemote
    \/ ParseRemoteUrl
    \/ GetCurrentCommit
    \/ GetAuthToken
    \/ Post
    \/ ResponseJson
    \/ RaiseForStatus
    \/ PrintBuild
    \/ Exit

Spec == Init /\ [][Next]_vars

----------------------------------------------------------------------------
(* parse_url_to_remote_info alone, on every URL of a bounded set *)

Users == {"", "git@", "a:b@"}
Hosts == {"github.com", "gitlab.com", "xgithub.com"}
Orgs == Strs({"a", "/", "@", ":"}, MaxOrgLen)
Repos == Strs({"a", ".", "g", "i", "t", "/"}, MaxRepoLen)
Suffixes == {".git", "", ".gi", "agit"}

Urls ==
    {user \o host \o colon \o org \o slash \o repo \o suffix :
        user \in Users, host \in Hosts, colon \in {":", "/"}, org \in Orgs,
        slash \in {"/", ""}, repo \in Repos, suffix \in Suffixes}
      \cup PushUrls

InitParse ==
    /\ pc = "remote_info"
    /\ succeeded = {}
    /\ validate_rc = -1
    /\ validator_output = <<>>
    /\ remote_tracking_branch = ""
    /\ remote_name = ""
    /\ remote_branch_name = ""
    /\ remote_url \in Urls
    /\ remote_info = NoInfo
    /\ http_requests = <<>>
    /\ response = NoResponse
    /\ response_data = NoData
    /\ stdout = <<>>
    /\ error = ""
    /\ exit_code = -1

NextParse == ParseRemoteUrl

SpecParse == InitParse /\ [][NextParse]_vars

----------------------------------------------------------------------------
(* Properties of main() *)

\* the steps 1-8 of a run, in order, and the statements after them
Preparation == <<"top_dir", "validate", "config_yml", "tracking_branch",
                 "match_branch", "remote_url", "remote_info", "revision", "auth_token">>
Statements == Preparation \o <<"post", "json", "raise_for_status", "print">>

Prepared == \A i \in DOMAIN Preparation : Preparation[i] \in succeeded

\* a 2xx status
Successful(status_code) == status_code >= 200 /\ status_code < 300

\* C1: if `circleci config validate` exits non-zero, the run ends at that
\* step with the process error, and no HTTP request is made.
C1_ValidatorFailureMakesNoRequest ==
    validate_rc > 0 =>
        /\ pc = "exited"
        /\ error = "CalledProcessError"
        /\ exit_code = 1
        /\ "validate" \notin succeeded
        /\ "post" \notin succeeded
        /\ http_requests = <<>>

C1_Witness ==
    /\ validate_rc = 1
    /\ pc = "exited"
    /\ succeeded = {"top_dir"}

\* the strings `remote/branch`: one "/", with text on both sides of it
CountChar(s, c) == Cardinality({i \in 1..Len(s) : Char(s, i) = c})
IsRemoteSlashBranch(s) ==
    /\ CountChar(s, "/") = 1
    /\ Char(s, 1) # "/"
    /\ Char(s, Len(s)) # "/"

\* C2: a tracking branch that is not of the form remote/branch ends the run
\* with the parse failure, before any HTTP call.
C2_BadTrackingBranchRaisesBeforeRequest ==
    ("tracking_branch" \in succeeded /\ pc # "match_branch"
        /\ ~IsRemoteSlashBranch(remote_tracking_branch)) =>
        /\ pc = "exited"
        /\ error = "Exception"
        /\ exit_code = 1
        /\ http_requests = <<>>

C2_Witness ==
    /\ remote_tracking_branch = "fork/feature/x"
    /\ pc = "exited"
    /\ error = "Exception"

BuildLine == "Build triggered as " \o response.body.build_url

\* C3 as stated: after a 2xx response whose JSON body holds build_url U, the
\* run ends with the line "Build triggered as U" as the whole of standard
\* output, and exit status 0.
C3_OnlyBuildLineOnStdout ==
    (Prepared /\ "post" \in succeeded /\ Successful(response.status_code)
        /\ response.body.json /\ response.body.has_build_url /\ pc = "exited") =>
        /\ stdout = <<BuildLine>>
        /\ exit_code = 0

\* C3, amended: after a 2xx response whose JSON body holds build_url U,
\* nothing is raised, main() prints the one line "Build triggered as U", which
\* comes after whatever the validator wrote to standard output, and the run
\* ends with exit status 0.
C3_SuccessPrintsBuildUrlAndExitsZero ==
    (Prepared /\ "post" \in succeeded /\ Successful(response.status_code)
        /\ response.body.json /\ response.body.has_build_url) =>
        /\ error = ""
        /\ exit_code \in {-1, 0}
        /\ pc \in {"json", "raise_for_status", "print"} => stdout = validator_output
        /\ pc \in {"exit", "exited"} => stdout = validator_output \o <<BuildLine>>
        /\ pc = "exited" => exit_code = 0

C3_Witness ==
    /\ pc = "exited"
    /\ response.status_code = 200
    /\ validator_output = <<"Config file at .circleci/config.yml is valid.">>
    /\ stdout = <<"Config file at .circleci/config.yml is valid.",
                  "Build triggered as https://circleci.com/gh/org/repo/123">>
    /\ exit_code = 0

\* C4: after a response whose status is not 2xx, whatever its body, main()
\* prints no build URL (standard output holds what the validator wrote and no
\* more) and the run exits non-zero.
C4_NonSuccessNeverPrints ==
    ("post" \in succeeded /\ ~Successful(response.status_code)) =>
        /\ stdout = validator_output
        /\ pc = "exited" => exit_code > 0

\* the branch of a tracking branch remote/branch: what follows the "/"
BranchOf(s) == SubSeq(s, Find(s, "/", 1) + 1, Len(s))

TriggerUrl ==
    "https://circleci.com/api/v1.1/project/github/" \o remote_info.organization
        \o "/" \o remote_info.repo_name \o "/tree/" \o BranchOf(remote_tracking_branch)

\* the POST requests of the run
Posts == {i \in 1..Len(http_requests) : http_requests[i].method = "POST"}

\* C8 as stated: a run that sends a request sends a single POST, and it goes to
\* https://circleci.com/api/v1.1/project/github/<org>/<repo>/tree/<branch>,
\* <branch> being the tracking branch without its remote.
C8_SinglePostTargetsTreeOfBranch ==
    http_requests # <<>> =>
        /\ Cardinality(Posts) = 1
        /\ \A i \in Posts : http_requests[i].url = TriggerUrl

\* C8, amended: the request main() issues, the first of the run, is a POST to
\* https://circleci.com/api/v1.1/project/github/<org>/<repo>/tree/<branch>,
\* <branch> being the tracking branch without its remote; every other request
\* of the run follows a redirect.
C8_PostTargetsTreeOfBranch ==
    http_requests # <<>> =>
        /\ http_requests[1].method = "POST"
        /\ ~http_requests[1].redirected
        /\ http_requests[1].url = TriggerUrl
        /\ \A i \in 2..Len(http_requests) : http_requests[i].redirected
        /\ (remote_url = "git@github.com:acme/widgets.git"
                /\ remote_tracking_branch = "origin/feature-x") =>
              http_requests[1].url =
                  "https://circleci.com/api/v1.1/project/github/acme/widgets/tree/feature-x"

C8_Witness ==
    /\ Len(http_requests) = 2
    /\ remote_url = "git@github.com:acme/widgets.git"
    /\ remote_tracking_branch = "origin/feature-x"
    /\ http_requests[1].url =
          "https://circleci.com/api/v1.1/project/github/acme/widgets/tree/feature-x"
    /\ http_requests[2].url = Location

\* C9: a run that ends after a response whose status is not 2xx ends with
\* HTTPError, whatever the body of the response.
C9_NonSuccessSurfacesAsHTTPError ==
    ("post" \in succeeded /\ ~Successful(response.status_code) /\ pc = "exited") =>
        error = "HTTPError"

\* the requests main() issued itself: those that follow no redirect
Issued == {i \in 1..Len(http_requests) : ~http_requests[i].redirected}

\* C10 as stated: at most one HTTP request is sent, and only once steps 1-8
\* have all succeeded; the statements succeed in order, and the first failure
\* ends the run at once, with nothing tried again.
C10_OneRequestAfterPreparationNoRetry ==
    /\ Len(http_requests) <= 1
    /\ http_requests # <<>> => Prepared
    /\ pc \in {"json", "raise_for_status", "print", "exit"} => Len(http_requests) = 1
    /\ \A i \in DOMAIN Statements :
          Statements[i] \in succeeded => \A j \in 1..(i - 1) : Statements[j] \in succeeded
    /\ error # "" => (pc = "exited" /\ exit_code = 1)
    /\ (pc = "exited" /\ "print" \notin succeeded) => error # ""

\* C10, amended: main() issues at most one HTTP request, and only once steps
\* 1-8 have all succeeded; any further request of the run follows a redirect
\* that request was answered with; the statements succeed in order, and the
\* first failure ends the run at once, with nothing tried again.
C10_OneIssuedRequestAfterPreparationNoRetry ==
    /\ Cardinality(Issued) <= 1
    /\ http_requests # <<>> => (Prepared /\ Issued = {1})
    /\ pc \in {"json", "raise_for_status", "print", "exit"} => Issued = {1}
    /\ \A i \in DOMAIN Statements :
          Statements[i] \in succeeded => \A j \in 1..(i - 1) : Statements[j] \in succeeded
    /\ error # "" => (pc = "exited" /\ exit_code = 1)
    /\ (pc = "exited" /\ "print" \notin succeeded) => error # ""

C10_Witness ==
    /\ Len(http_requests) = 2
    /\ http_requests[2].method = "POST"
    /\ response.status_code = 500
    /\ pc = "exited"
    /\ error = "HTTPError"

----------------------------------------------------------------------------
(* Properties of parse_url_to_remote_info, read off remote_url, remote_info
   and error once the call has been made (pc # "remote_info") *)

Parsed == pc # "remote_info"

StartsWith(s, prefix) == Len(s) >= Len(prefix) /\ SubSeq(s, 1, Len(prefix)) = prefix
EndsWith(s, suffix) ==
    Len(s) >= Len(suffix) /\ SubSeq(s, Len(s) - Len(suffix) + 1, Len(s)) = suffix
DropPrefix(s, prefix) == SubSeq(s, Len(prefix) + 1, Len(s))
DropSuffix(s, suffix) == SubSeq(s, 1, Len(s) - Len(suffix))

\* <org>/<repo>: org is not empty and holds no "/", repo is not empty
IsOrgSlashRepo(path) ==
    LET slash == Find(path, "/", 1) IN slash > 1 /\ slash < Len(path)
OrgOf(path) == SubSeq(path, 1, Find(path, "/", 1) - 1)
RepoOf(path) == SubSeq(path, Find(path, "/", 1) + 1, Len(path))

\* git@github.com:<org>/<repo>.git
IsSshUrl(url) ==
    /\ StartsWith(url, "git@github.com:")
    /\ EndsWith(url, ".git")
    /\ Len(url) > Len("git@github.com:") + Len(".git")
    /\ IsOrgSlashRepo(DropSuffix(DropPrefix(url, "git@github.com:"), ".git"))
SshPath(url) == DropSuffix(DropPrefix(url, "git@github.com:"), ".git")

\* C5: git@github.com:<org>/<repo>.git parses to service "github",
\* organization <org> and repo_name <repo>.
C5_SshUrlParsesToOrgAndRepo ==
    (Parsed /\ IsSshUrl(remote_url)) =>
        /\ error = ""
        /\ remote_info = [service      |-> "github",
                          organization |-> OrgOf(SshPath(remote_url)),
                          repo_name    |-> RepoOf(SshPath(remote_url))]

C5_Witness ==
    /\ Parsed
    /\ remote_url = "git@github.com:acme/widgets.git"
    /\ remote_info = [service |-> "github", organization |-> "acme", repo_name |-> "widgets"]

\* (git@)?github.com:<org>/<repo> with no .git suffix
IsUrlWithoutSuffix(url) ==
    LET rest == IF StartsWith(url, "git@") THEN DropPrefix(url, "git@") ELSE url
    IN  /\ StartsWith(rest, "github.com:")
        /\ ~EndsWith(rest, ".git")
        /\ IsOrgSlashRepo(DropPrefix(rest, "github.com:"))
PathWithoutSuffix(url) ==
    DropPrefix(IF StartsWith(url, "git@") THEN DropPrefix(url, "git@") ELSE url,
               "github.com:")

\* C6: the .git suffix is optional: (user@)?github.com:<org>/<repo> without
\* it parses to organization <org> and repo_name <repo>, as it does with it.
C6_GitSuffixIsOptional ==
    (Parsed /\ IsUrlWithoutSuffix(remote_url)) =>
        /\ error = ""
        /\ remote_info = [service      |-> "github",
                          organization |-> OrgOf(PathWithoutSuffix(remote_url)),
                          repo_name    |-> RepoOf(PathWithoutSuffix(remote_url))]

\* url matches (user@)?host:org/repo(.git)? with host = github.com: after the
\* start or after some "@" that ends a user comes "github.com:", then an org
\* without "/", a "/" and a repo
MatchesGithubPattern(url) ==
    \E at \in 0..Len(url) :
        /\ at = 0 \/ (at > 1 /\ Char(url, at) = "@")
        /\ StartsWith(SubSeq(url, at + 1, Len(url)), "github.com:")
        /\ IsOrgSlashRepo(DropPrefix(SubSeq(url, at + 1, Len(url)), "github.com:"))

\* C7: a URL that does not match (user@)?host:org/repo(.git)? with the host
\* github.com raises the parse failure, and no RemoteInfo is returned.
C7_OtherUrlsRaise ==
    (Parsed /\ ~MatchesGithubPattern(remote_url)) =>
        /\ pc = "exited"
        /\ error = "Exception"
        /\ remote_info = NoInfo

C7_Witness ==
    /\ Parsed
    /\ remote_url \in {"https://github.com/acme/widgets.git", "git@gitlab.com:acme/widgets.git"}
    /\ error = "Exception"

====
